---------------------------- MODULE Spec2Model ----------------------------
(***************************************************************************)
(* A model of lmformatenforcer/jsonschemaparser.py: the character-level    *)
(* JSON-schema parser.  Python objects live in a heap (frames) and in a    *)
(* table of parser roots (their object_stack), so that aliasing, the       *)
(* frames' back-pointer to their root and deepcopy are modelled and not    *)
(* assumed.  A character is a one-character string, a Python str is a      *)
(* sequence of characters, and the value of get_allowed_characters() is    *)
(* the set of the characters of the returned string (order and duplicates  *)
(* are not observable through `in`).                                       *)
(***************************************************************************)
EXTENDS Integers, Sequences, FiniteSets, TLC

(***************************************************************************)
(* Bounds of the exploration (the driver's, not the program's).            *)
(***************************************************************************)
MaxInput == 12
MaxNumLen == 3
MaxStrLen == 1
MaxSpaces == 1

(***************************************************************************)
(* Python values.                                                          *)
(***************************************************************************)
\* None, where a str is expected (a str is a sequence of 1-character strings)
None == <<"None">>
\* None, where an object reference (a heap address, a schema node) is expected
NoRef == 0

Digits == {"0", "1", "2", "3", "4", "5", "6", "7", "8", "9"}
Lower == {"a", "b", "c", "d", "e", "f", "g", "h", "i", "j", "k", "l", "m",
          "n", "o", "p", "q", "r", "s", "t", "u", "v", "w", "x", "y", "z"}
Upper == {"A", "B", "C", "D", "E", "F", "G", "H", "I", "J", "K", "L", "M",
          "N", "O", "P", "Q", "R", "S", "T", "U", "V", "W", "X", "Y", "Z"}
\* the literal of StringParsingState._get_allowed_primitive_characters
FreeFormChars == Digits \cup Lower \cup Upper \cup
    {"!", "@", "#", "$", "%", "^", "&", "*", "(", ")", "_", "+", "-", "=",
     "[", "]", "{", "}", ";", ":", ",", ".", "/", "<", ">", "?", " ", "'", "\""}

\* c in s, for a str s
In(c, s) == \E i \in 1..Len(s) : s[i] = c
\* set(s), for a str or a list s
SetOf(s) == {s[i] : i \in 1..Len(s)}
\* s.startswith(p)
startswith(s, p) == Len(p) <= Len(s) /\ SubSeq(s, 1, Len(p)) = p
\* c.strip() == "" for a one-character c
IsWhitespace(c) == c \in {" ", "\t", "\n", "\r"}

(***************************************************************************)
(* Schema nodes (JsonSchemaObject): immutable, shared by reference.  A     *)
(* node is referred to by its index in Schemas.  properties is a function  *)
(* from keys to nodes; hasProperties tells `properties is None` apart from *)
(* an empty dict.                                                          *)
(***************************************************************************)
Node(t) == [type |-> t, hasProperties |-> FALSE, properties |-> <<>>,
            additionalProperties |-> NoRef, items |-> NoRef, enum |-> {},
            ref |-> None, extras |-> "none", definitions |-> <<>>]
ObjectNode(props) == [Node("object") EXCEPT !.hasProperties = TRUE, !.properties = props]

kN == <<"n">>
kA == <<"a">>
kB == <<"b">>
kO == <<"o">>
kL == <<"l">>
kFlag == <<"f", "l", "a", "g">>
sYes == <<"y", "e", "s">>
sNo == <<"n", "o">>
sX == <<"X">>

Schemas == <<
    \* 1: {"type":"object","properties":{"n":{"type":"integer"}}}
    ObjectNode(kN :> 2),
    Node("integer"),
    \* 3: {"type":"object","properties":{"flag":{"type":"string","enum":["yes","no"]}}}
    ObjectNode(kFlag :> 4),
    [Node("string") EXCEPT !.enum = {sYes, sNo}],
    \* 5: {"type":"object","properties":{"a":{"type":"number"},"b":{"type":"string"}}}
    ObjectNode(kA :> 6 @@ kB :> 7),
    Node("number"),
    Node("string"),
    \* 8: a dictionary: {"type":"object","additionalProperties":{"type":"string"}}
    [Node("object") EXCEPT !.additionalProperties = 7],
    \* 9: {"type":"object","properties":{"l":{"type":"array","items":{"type":"integer"}}}}
    ObjectNode(kL :> 11),
    ObjectNode(<<>>),
    [Node("array") EXCEPT !.items = 2],
    \* 12: {"type":"object","properties":{"o":{"type":"object","properties":{}}}}
    ObjectNode(kO :> 10),
    \* 13: {"type":"object","properties":{"l":{"type":"array","items":{"type":"object",
    \*      "properties":{}}},"n":{"type":"integer"}}}
    ObjectNode(kL :> 14 @@ kN :> 2),
    [Node("array") EXCEPT !.items = 10],
    \* 15: {"type":"object","properties":{"n":{"type":"boolean"}}}
    ObjectNode(kN :> 16),
    Node("boolean"),
    \* 17: {"type":"object","properties":{"l":{"type":"array","items":{"type":"boolean"}}}}
    ObjectNode(kL :> 18),
    [Node("array") EXCEPT !.items = 16],
    \* 19: {"type":"object","properties":{"o":{"$ref":"#/definitions/X"}}}, with neither
    \*     "definitions" nor "$defs"
    ObjectNode(kO :> 20),
    [Node("None") EXCEPT !.ref = sX],
    \* 21: {"type":"object","properties":{"o":{"$ref":"#/definitions/X"}},
    \*      "definitions":{"X":{"type":"object","properties":{}}}}
    [ObjectNode(kO :> 20) EXCEPT !.extras = "definitions", !.definitions = sX :> 10]
>>

\* the schemas a parser is constructed with
RootSchemas == {1, 3, 5, 8, 9, 12, 13, 15, 17, 19, 21}

(***************************************************************************)
(* Frames.  Every frame is a record with the fields of all four classes;   *)
(* the fields a class does not have keep their default.                    *)
(***************************************************************************)
START_OBJECT == "StartObject"
PARSING_KEY_OR_END == "ParsingKey"
PARSING_VALUE == "ParsingValue"
PARSING_SEPARATOR_OR_END == "ParsingSeparatorOrEnd"
END_OBJECT == "EndObject"

BaseParsingState(kind, root) ==
    [kind |-> kind, root |-> root,
     schema_object |-> NoRef, current_stage |-> START_OBJECT, existing_keys |-> <<>>,
     current_key |-> None, current_key_parser |-> NoRef, is_dictionary |-> FALSE,
     parsed_string |-> <<>>, ending_characters |-> <<>>,
     allow_floating_point |-> FALSE, seen_decimal_point |-> FALSE,
     allowed_strings |-> {}, seen_closing_quote |-> FALSE, seen_opening_quote |-> FALSE,
     list_member_type |-> NoRef, seen_list_opener |-> FALSE, seen_list_closer |-> FALSE]

ObjectParsingState(schema_object, root) ==
    [BaseParsingState("Object", root) EXCEPT
        !.schema_object = schema_object,
        !.is_dictionary = ~Schemas[schema_object].hasProperties]

PrimitiveParsingState(kind, root, ending_characters) ==
    [BaseParsingState(kind, root) EXCEPT !.ending_characters = ending_characters]

NumberParsingState(root, ending_characters, allow_floating_point) ==
    [PrimitiveParsingState("Number", root, ending_characters) EXCEPT
        !.allow_floating_point = allow_floating_point]

\* allowed_strings is only tested for emptiness, membership and prefixes: a
\* set, with None and [] both the empty set (both are falsy)
StringParsingState(root, ending_characters, allowed_strings, require_opening_quote) ==
    [PrimitiveParsingState("String", root, ending_characters) EXCEPT
        !.allowed_strings = allowed_strings,
        !.seen_opening_quote = ~require_opening_quote]

ListParsingState(root, ending_characters, list_member_type) ==
    [PrimitiveParsingState("List", root, ending_characters) EXCEPT
        !.list_member_type = list_member_type]


(***************************************************************************)
(* The interpreter's store: the heap of frames (an address is an index),   *)
(* every parser root's object_stack (a sequence of addresses, top last)    *)
(* and the exception being raised, if any.  Once an exception is raised    *)
(* the remaining statements of every active call are skipped.              *)
(***************************************************************************)
NoError == "none"

Raise(st, e) == [st EXCEPT !.err = e]

\* self.root.object_stack.append(frame), the frame being newly constructed
Push(st, r, frame) ==
    LET a == Len(st.heap) + 1
    IN  [st EXCEPT !.heap = Append(@, frame), !.object_stack[r] = Append(@, a)]

(***************************************************************************)
(* get_parser: the frame for a value schema, or the exception raised.      *)
(***************************************************************************)
\* value_schema.ref.split('/')[-1]; the refs of Schemas are "#/definitions/<name>"
\* and are stored by their last segment
RefName(node) == node.ref

get_parser(root_schema, r, value_schema, ending_characters) ==
    IF value_schema = NoRef
    THEN [err |-> "AttributeError", frame |-> BaseParsingState("None", r)]
    ELSE
    LET node == Schemas[value_schema]
        ok(f) == [err |-> NoError, frame |-> f]
        fail(e) == [err |-> e, frame |-> BaseParsingState("None", r)]
    IN  IF node.type = "string"
        THEN ok(StringParsingState(r, ending_characters, node.enum, TRUE))
        ELSE IF node.type = "object"
        THEN ok(ObjectParsingState(value_schema, r))
        ELSE IF node.type = "None" /\ node.ref # None
        THEN LET extras == Schemas[root_schema]
             IN  IF extras.extras = "none"
                 THEN fail("ValueError")
                 ELSE IF RefName(node) \notin DOMAIN extras.definitions
                 THEN fail("KeyError")
                 ELSE ok(ObjectParsingState(extras.definitions[RefName(node)], r))
        ELSE IF node.type = "integer"
        THEN ok(NumberParsingState(r, ending_characters, FALSE))
        ELSE IF node.type = "number"
        THEN ok(NumberParsingState(r, ending_characters, TRUE))
        ELSE IF node.type = "array"
        THEN ok(ListParsingState(r, ending_characters, node.items))
        ELSE fail("Exception")

(***************************************************************************)
(* can_end and get_allowed_characters of a frame.                          *)
(***************************************************************************)
\* the bug of a Number frame that keeps PrimitiveParsingState.can_end
NumberParsingState_can_end_Always(f) == TRUE

NumberParsingState_can_end(f) ==
    f.parsed_string # <<>> /\ f.parsed_string[Len(f.parsed_string)] \in Digits

StringParsingState_can_end(f) == f.seen_closing_quote

ListParsingState_can_end(f) == f.seen_list_closer

Frame_can_end(f) ==
    CASE f.kind = "Number" -> NumberParsingState_can_end(f)
      [] f.kind = "String" -> StringParsingState_can_end(f)
      [] f.kind = "List" -> ListParsingState_can_end(f)

\* the bug of possible_characters starting empty, without ' '
ObjectParsingState_get_allowed_characters_NoSpace(f) ==
    LET possible_keys == DOMAIN Schemas[f.schema_object].properties
        can_parse_key == f.is_dictionary \/ SetOf(f.existing_keys) \subseteq possible_keys
    IN  CASE f.current_stage = START_OBJECT -> {"{"}
          [] f.current_stage = PARSING_KEY_OR_END ->
                {"}"} \cup (IF can_parse_key THEN {"\""} ELSE {})
          [] f.current_stage \in {PARSING_VALUE, PARSING_SEPARATOR_OR_END} ->
                {"}"} \cup (IF can_parse_key THEN {","} ELSE {})
          [] OTHER -> {}

ObjectParsingState_get_allowed_characters(f) ==
    LET possible_keys == DOMAIN Schemas[f.schema_object].properties
        required_keys == {}
        can_end == required_keys \subseteq SetOf(f.existing_keys)
        can_parse_key == f.is_dictionary \/ SetOf(f.existing_keys) \subseteq possible_keys
    IN  {" "} \cup
        (CASE f.current_stage = START_OBJECT -> {"{"}
           [] f.current_stage = PARSING_KEY_OR_END ->
                (IF can_end THEN {"}"} ELSE {}) \cup (IF can_parse_key THEN {"\""} ELSE {})
           [] f.current_stage \in {PARSING_VALUE, PARSING_SEPARATOR_OR_END} ->
                (IF can_end THEN {"}"} ELSE {}) \cup (IF can_parse_key THEN {","} ELSE {})
           [] OTHER -> {})

NumberParsingState_get_allowed_primitive_characters(f) ==
    Digits \cup (IF f.parsed_string = <<>> THEN {"-"} ELSE {})
           \cup (IF f.allow_floating_point /\ ~f.seen_decimal_point THEN {"."} ELSE {})

\* the bug of taking the continuation of every allowed string, whether or not it
\* starts with parsed_string
AllowedNextCharacters_NoPrefixTest(f) ==
    LET n == Len(f.parsed_string)
        allowed_continuations == {SubSeq(s, n + 1, Len(s)) : s \in f.allowed_strings}
        allowed_next_characters == {k[1] : k \in {t \in allowed_continuations : Len(t) > 0}}
    IN  allowed_next_characters \cup
        (IF f.parsed_string \in f.allowed_strings THEN {"\""} ELSE {})

\* the bug of offering the closing quote whatever parsed_string is
AllowedNextCharacters_QuoteAlways(f) ==
    LET n == Len(f.parsed_string)
        allowed_continuations ==
            {SubSeq(s, n + 1, Len(s)) : s \in {t \in f.allowed_strings : startswith(t, f.parsed_string)}}
        allowed_next_characters == {k[1] : k \in {t \in allowed_continuations : Len(t) > 0}}
    IN  allowed_next_characters \cup {"\""}

\* the branch `if self.allowed_strings` of _get_allowed_primitive_characters
AllowedNextCharacters(f) ==
    LET n == Len(f.parsed_string)
        allowed_continuations ==
            {SubSeq(s, n + 1, Len(s)) : s \in {t \in f.allowed_strings : startswith(t, f.parsed_string)}}
        allowed_next_characters == {k[1] : k \in {t \in allowed_continuations : Len(t) > 0}}
    IN  allowed_next_characters \cup
        (IF f.parsed_string \in f.allowed_strings THEN {"\""} ELSE {})

StringParsingState_get_allowed_primitive_characters(f) ==
    IF ~f.seen_opening_quote THEN {"\""}
    ELSE IF f.seen_closing_quote THEN {}
    ELSE IF f.allowed_strings # {} THEN AllowedNextCharacters(f)
    ELSE FreeFormChars

\* the bug of an open list that offers ']' alone
ListParsingState_get_allowed_primitive_characters_NoComma(f) ==
    IF ~f.seen_list_opener THEN {"["}
    ELSE IF ~f.seen_list_closer THEN {"]"}
    ELSE {}

ListParsingState_get_allowed_primitive_characters(f) ==
    IF ~f.seen_list_opener THEN {"["}
    ELSE IF ~f.seen_list_closer THEN {"]", ","}
    ELSE {}

get_allowed_primitive_characters(f) ==
    CASE f.kind = "Number" -> NumberParsingState_get_allowed_primitive_characters(f)
      [] f.kind = "String" -> StringParsingState_get_allowed_primitive_characters(f)
      [] f.kind = "List" -> ListParsingState_get_allowed_primitive_characters(f)

\* the bug of not adding the ending characters when the frame can end
PrimitiveParsingState_get_allowed_characters_NoEnding(f) ==
    get_allowed_primitive_characters(f)

PrimitiveParsingState_get_allowed_characters(f) ==
    get_allowed_primitive_characters(f)
    \cup (IF Frame_can_end(f) THEN SetOf(f.ending_characters) ELSE {})

Frame_get_allowed_characters(f) ==
    IF f.kind = "Object" THEN ObjectParsingState_get_allowed_characters(f)
    ELSE PrimitiveParsingState_get_allowed_characters(f)

(***************************************************************************)
(* add_character of the frames and JsonSchemaParser.finish_parser, which   *)
(* call each other.  Each takes the store and returns the store after the  *)
(* call; a is the address of self.                                         *)
(***************************************************************************)
RECURSIVE Frame_add_character(_, _, _, _)

\* self.object_stack.pop(), then the character handed to the new top frame
finish_parser(ms, st, r, character_to_pass_to_parent) ==
    IF st.object_stack[r] = <<>> THEN Raise(st, "IndexError")
    ELSE
    LET popped == [st EXCEPT !.object_stack[r] = SubSeq(@, 1, Len(@) - 1)]
        stack == popped.object_stack[r]
    IN  IF stack # <<>> /\ character_to_pass_to_parent # ""
        THEN Frame_add_character(ms, popped, stack[Len(stack)], character_to_pass_to_parent)
        ELSE popped

\* self.current_stage = END_OBJECT; self.root.finish_parser()
EndObject(ms, st, a) ==
    finish_parser(ms, [st EXCEPT !.heap[a].current_stage = END_OBJECT], st.heap[a].root, "")

\* the branch `if new_character == '"'` of the stage PARSING_KEY_OR_END
StartKey(st, a) ==
    LET f == st.heap[a]
        possible_keys ==
            IF ~f.is_dictionary
            THEN DOMAIN Schemas[f.schema_object].properties \ SetOf(f.existing_keys)
            ELSE {}
        key_parser == StringParsingState(f.root, <<":">>, possible_keys, FALSE)
        pushed == Push([st EXCEPT !.heap[a].current_stage = PARSING_KEY_OR_END],
                       f.root, key_parser)
    IN  [pushed EXCEPT !.heap[a].current_key_parser = Len(pushed.heap)]

\* the bug of taking every object for a dictionary, which can always continue
can_continue_Always(f, existing_keys) == TRUE

\* can_continue, once the key is in existing_keys
can_continue(f, existing_keys) ==
    IF f.is_dictionary THEN TRUE
    ELSE DOMAIN Schemas[f.schema_object].properties \ SetOf(existing_keys) # {}

\* the branch `if new_character == ":"` of the stage PARSING_KEY_OR_END
StartValue(ms, st, a) ==
    LET f == st.heap[a]
    IN  IF f.current_key_parser = NoRef
        THEN Raise([st EXCEPT !.heap[a].current_stage = PARSING_VALUE], "AttributeError")
        ELSE
        LET current_key == st.heap[f.current_key_parser].parsed_string
            existing_keys == Append(f.existing_keys, current_key)
            s1 == [st EXCEPT !.heap[a].current_stage = PARSING_VALUE,
                             !.heap[a].current_key = current_key,
                             !.heap[a].existing_keys = existing_keys]
            properties == Schemas[f.schema_object].properties
            ending_characters == IF can_continue(f, existing_keys) THEN <<"}", ",">> ELSE <<"}">>
        IN  IF ~f.is_dictionary /\ current_key \notin DOMAIN properties
            THEN Raise(s1, "KeyError")
            ELSE
            LET value_schema == IF f.is_dictionary
                                THEN Schemas[f.schema_object].additionalProperties
                                ELSE properties[current_key]
                made == get_parser(ms, f.root, value_schema, ending_characters)
            IN  IF made.err # NoError
                THEN Raise(s1, made.err)
                ELSE [Push(s1, f.root, made.frame) EXCEPT !.heap[a].current_key_parser = NoRef]

ObjectParsingState_add_character(ms, st, a, new_character) ==
    LET f == st.heap[a]
    IN  IF IsWhitespace(new_character) THEN st
        ELSE IF f.current_stage = START_OBJECT /\ new_character = "{"
        THEN [st EXCEPT !.heap[a].current_stage = PARSING_KEY_OR_END]
        ELSE IF f.current_stage = PARSING_KEY_OR_END
        THEN CASE new_character = "}" -> EndObject(ms, st, a)
               [] new_character = "\"" -> StartKey(st, a)
               [] new_character = ":" -> StartValue(ms, st, a)
               [] OTHER -> st
        ELSE IF f.current_stage = PARSING_VALUE
        THEN CASE new_character = "\"" ->
                    [st EXCEPT !.heap[a].current_stage = PARSING_SEPARATOR_OR_END]
               [] new_character = "," ->
                    [st EXCEPT !.heap[a].current_stage = PARSING_KEY_OR_END]
               [] new_character = "}" -> EndObject(ms, st, a)
               [] OTHER -> st
        ELSE IF f.current_stage = PARSING_SEPARATOR_OR_END
        THEN CASE new_character = "," ->
                    [st EXCEPT !.heap[a].current_stage = PARSING_KEY_OR_END]
               [] new_character = "}" -> EndObject(ms, st, a)
               [] OTHER -> st
        ELSE st

\* the bug of popping on an ending character without asking can_end()
PrimitiveParsingState_add_character_NoCanEnd(ms, st, a, new_character) ==
    LET f == st.heap[a]
    IN  IF In(new_character, f.ending_characters)
        THEN finish_parser(ms, st, f.root, new_character)
        ELSE [st EXCEPT !.heap[a].parsed_string = Append(@, new_character)]

PrimitiveParsingState_add_character(ms, st, a, new_character) ==
    LET f == st.heap[a]
    IN  IF Frame_can_end(f) /\ In(new_character, f.ending_characters)
        THEN finish_parser(ms, st, f.root, new_character)
        ELSE [st EXCEPT !.heap[a].parsed_string = Append(@, new_character)]

NumberParsingState_add_character(ms, st, a, new_character) ==
    LET s1 == PrimitiveParsingState_add_character(ms, st, a, new_character)
    IN  IF s1.err # NoError THEN s1
        ELSE IF new_character = "."
        THEN [s1 EXCEPT !.heap[a].seen_decimal_point = TRUE]
        ELSE s1

\* the bug of popping on the closing quote and handing the quote to the parent
StringParsingState_add_character_PopOnQuote(ms, st, a, new_character) ==
    LET f == st.heap[a]
        s1 == PrimitiveParsingState_add_character(ms, st, a, new_character)
    IN  IF new_character = "\"" /\ f.seen_opening_quote /\ ~f.seen_closing_quote
        THEN finish_parser(ms, [st EXCEPT !.heap[a].seen_closing_quote = TRUE], f.root, "\"")
        ELSE IF s1.err # NoError THEN s1
        ELSE IF new_character = "\""
        THEN [s1 EXCEPT !.heap[a].seen_opening_quote = TRUE, !.heap[a].parsed_string = <<>>]
        ELSE s1

StringParsingState_add_character(ms, st, a, new_character) ==
    LET s1 == PrimitiveParsingState_add_character(ms, st, a, new_character)
    IN  IF s1.err # NoError THEN s1
        ELSE IF new_character = "\""
        THEN IF ~s1.heap[a].seen_opening_quote
             THEN [s1 EXCEPT !.heap[a].seen_opening_quote = TRUE,
                             !.heap[a].parsed_string = <<>>]
             ELSE [s1 EXCEPT !.heap[a].seen_closing_quote = TRUE,
                             !.heap[a].parsed_string = SubSeq(@, 1, Len(@) - 1)]
        ELSE s1

\* self.root.object_stack.append(get_parser(self.root, self.list_member_type, "],"))
PushListMember(ms, st, a) ==
    LET f == st.heap[a]
        made == get_parser(ms, f.root, f.list_member_type, <<"]", ",">>)
    IN  IF made.err # NoError THEN Raise(st, made.err) ELSE Push(st, f.root, made.frame)

\* the bug of pushing a member on every ',', the list closed or not
ListParsingState_add_character_PushAfterClose(ms, st, a, new_character) ==
    LET s1 == IF st.heap[a].seen_list_closer
              THEN PrimitiveParsingState_add_character(ms, st, a, new_character)
              ELSE st
    IN  IF s1.err # NoError THEN s1
        ELSE CASE new_character = "[" ->
                    PushListMember(ms, [s1 EXCEPT !.heap[a].seen_list_opener = TRUE], a)
               [] new_character = "]" -> [s1 EXCEPT !.heap[a].seen_list_closer = TRUE]
               [] new_character = "," -> PushListMember(ms, s1, a)
               [] OTHER -> s1

ListParsingState_add_character(ms, st, a, new_character) ==
    LET s1 == IF st.heap[a].seen_list_closer
              THEN PrimitiveParsingState_add_character(ms, st, a, new_character)
              ELSE st
    IN  IF s1.err # NoError THEN s1
        ELSE CASE new_character = "[" ->
                    PushListMember(ms, [s1 EXCEPT !.heap[a].seen_list_opener = TRUE], a)
               [] new_character = "]" -> [s1 EXCEPT !.heap[a].seen_list_closer = TRUE]
               [] new_character = "," ->
                    IF ~s1.heap[a].seen_list_closer THEN PushListMember(ms, s1, a) ELSE s1
               [] OTHER -> s1

Frame_add_character(ms, st, a, new_character) ==
    CASE st.heap[a].kind = "Object" -> ObjectParsingState_add_character(ms, st, a, new_character)
      [] st.heap[a].kind = "Number" -> NumberParsingState_add_character(ms, st, a, new_character)
      [] st.heap[a].kind = "String" -> StringParsingState_add_character(ms, st, a, new_character)
      [] st.heap[a].kind = "List" -> ListParsingState_add_character(ms, st, a, new_character)

(***************************************************************************)
(* JsonSchemaParser.  A root is referred to by its index in object_stack.  *)
(***************************************************************************)
Top(st, r) == st.object_stack[r][Len(st.object_stack[r])]

\* a list built element by element, as the sequence it is (a tuple of TLC's, not a
\* function it evaluates lazily)
List(f) == SubSeq(f, 1, Len(f))

\* for parser in stack: parser.root = root
SetRoots(heap, stack, root) ==
    List([a \in DOMAIN heap |-> IF In(a, stack) THEN [heap[a] EXCEPT !.root = root] ELSE heap[a]])

\* deepcopy(self.object_stack, memo): a copy of every frame of the stack at a
\* fresh address, the frames' references to each other following the copies
\* (the memo).  A frame refers to another frame only by current_key_parser.
\* the bug of copying each frame on its own: a copied Object frame keeps referring
\* to the key parser of the original
DeepcopyStack_NoMemo(heap, stack) ==
    LET base == Len(heap)
        copies == [i \in 1..Len(stack) |-> heap[stack[i]]]
    IN  [heap |-> heap \o List(copies), stack |-> List([i \in 1..Len(stack) |-> base + i])]

DeepcopyStack(heap, stack) ==
    LET base == Len(heap)
        IndexOf(a) == CHOOSE i \in 1..Len(stack) : stack[i] = a
        memo(a) == IF a = NoRef THEN NoRef
                   ELSE IF In(a, stack) THEN base + IndexOf(a)
                   ELSE a
        copies == [i \in 1..Len(stack) |->
                      [heap[stack[i]] EXCEPT !.current_key_parser = memo(@)]]
    IN  [heap |-> heap \o List(copies), stack |-> List([i \in 1..Len(stack) |-> base + i])]

\* JsonSchemaParser.__init__ of the root `self`: the stack it starts with
JsonSchemaParser_init(st, model_class, existing_stack, self) ==
    IF existing_stack # <<>>
    THEN [st EXCEPT !.object_stack = Append(@, existing_stack)]
    ELSE [st EXCEPT !.heap = Append(@, ObjectParsingState(model_class, self)),
                    !.object_stack = Append(@, <<Len(st.heap) + 1>>)]

\* the bug of copying the list and not the frames: clone and original share them
JsonSchemaParser_deepcopy_Shallow(ms, st, r) ==
    LET clone == Len(st.object_stack) + 1
        made == JsonSchemaParser_init(st, ms, st.object_stack[r], clone)
    IN  [made EXCEPT !.heap = SetRoots(made.heap, made.object_stack[clone], clone)]

\* the bug of not giving the frames of self their root back after the copy
JsonSchemaParser_deepcopy_NoRestore(ms, st, r) ==
    LET clone == Len(st.object_stack) + 1
        stack == st.object_stack[r]
        detached == SetRoots(st.heap, stack, NoRef)
        copied == DeepcopyStack(detached, stack)
        made == JsonSchemaParser_init([st EXCEPT !.heap = copied.heap], ms, copied.stack, clone)
    IN  [made EXCEPT !.heap = SetRoots(made.heap, made.object_stack[clone], clone)]

\* JsonSchemaParser.__deepcopy__ of root r; the clone is the last root of the result
JsonSchemaParser_deepcopy(ms, st, r) ==
    LET clone == Len(st.object_stack) + 1
        stack == st.object_stack[r]
        detached == SetRoots(st.heap, stack, NoRef)
        copied == DeepcopyStack(detached, stack)
        made == JsonSchemaParser_init([st EXCEPT !.heap = copied.heap], ms, copied.stack, clone)
        restored == SetRoots(made.heap, stack, r)
    IN  [made EXCEPT !.heap = SetRoots(restored, made.object_stack[clone], clone)]

\* JsonSchemaParser.add_character on root r; the returned clone is the last root
JsonSchemaParser_add_character(ms, st, r, new_character) ==
    LET cloned == JsonSchemaParser_deepcopy(ms, st, r)
        clone == Len(cloned.object_stack)
    IN  IF cloned.object_stack[clone] = <<>>
        THEN Raise(cloned, "IndexError")
        ELSE Frame_add_character(ms, cloned, Top(cloned, clone), new_character)

JsonSchemaParser_get_allowed_characters(heap, stack) ==
    IF stack # <<>> THEN Frame_get_allowed_characters(heap[stack[Len(stack)]]) ELSE {}

JsonSchemaParser_can_end(stack) == stack = <<>>

(***************************************************************************)
(* The state: the root schema, the heap, the roots' stacks, the root the   *)
(* driver holds, and the history the properties speak of.                  *)
(***************************************************************************)
VARIABLES
    model_class,    \* the schema the parser was constructed with
    heap,           \* the frames
    object_stack,   \* object_stack[r]: the stack of root r
    cur,            \* the root the driver holds
    err,            \* the exception the last add_character raised
    input,          \* the characters the driver has fed, in order
    observed,       \* observed[r]: what root r looked like when it was returned
    contract        \* "kept" while the driver has fed allowed characters only, then what
                    \* it did last: "illegal", "after_end" (add_character against its
                    \* contract) or "cloned" (deepcopy)

vars == <<model_class, heap, object_stack, cur, err, input, observed, contract>>

store == [heap |-> heap, object_stack |-> object_stack, err |-> NoError]

\* what a caller can see of root r: its frames, get_allowed_characters(), can_end()
Observe(h, stacks, r) ==
    [frames |-> List([i \in 1..Len(stacks[r]) |-> h[stacks[r][i]]]),
     allowed |-> JsonSchemaParser_get_allowed_characters(h, stacks[r]),
     can_end |-> JsonSchemaParser_can_end(stacks[r])]

allowed_characters == JsonSchemaParser_get_allowed_characters(heap, object_stack[cur])
can_end == JsonSchemaParser_can_end(object_stack[cur])
TopFrame == heap[object_stack[cur][Len(object_stack[cur])]]

(***************************************************************************)
(* The driver.  It feeds characters of InputChars; into a free-form string *)
(* it writes only the characters of FreeFormInput.                         *)
(***************************************************************************)
InputChars == {" ", "{", "}", "\"", ":", ",", "[", "]", "-", ".", "4",
               "f", "l", "a", "g", "y", "e", "s", "n", "o", "b"}
FreeFormInput == {"o", ","}
\* the characters it feeds when it breaks add_character's contract
ContractBreakingInput == {"{", "}", ","}

Count(s, c) == Cardinality({i \in 1..Len(s) : s[i] = c})

IsFreeForm(f) ==
    f.kind = "String" /\ f.seen_opening_quote /\ ~f.seen_closing_quote /\ f.allowed_strings = {}

DriverFeeds(c) ==
    /\ Len(input) < MaxInput
    /\ c = " " => Count(input, " ") < MaxSpaces
    /\ object_stack[cur] # <<>> =>
         /\ TopFrame.kind = "Number" /\ c \in Digits \cup {"-", "."}
              => Len(TopFrame.parsed_string) < MaxNumLen
         /\ IsFreeForm(TopFrame) /\ c # "\""
              => c \in FreeFormInput /\ Len(TopFrame.parsed_string) < MaxStrLen

Init ==
    \E ms \in RootSchemas :
        LET made == JsonSchemaParser_init([heap |-> <<>>, object_stack |-> <<>>, err |-> NoError],
                                          ms, <<>>, 1)
        IN  /\ model_class = ms
            /\ heap = made.heap
            /\ object_stack = made.object_stack
            /\ cur = 1
            /\ err = NoError
            /\ input = <<>>
            /\ observed = <<Observe(made.heap, made.object_stack, 1)>>
            /\ contract = "kept"

\* what the driver is left with when cur.add_character(c) has ended in the store
\* `after`: the clone replaces cur, unless the call raised, and then the clone is
\* dropped and the driver keeps cur
Returned(c, after) ==
    LET clone == Len(after.object_stack)
    IN  /\ err = NoError
        /\ contract = "kept"
        /\ DriverFeeds(c)
        /\ err' = after.err
        /\ input' = Append(input, c)
        /\ model_class' = model_class
        /\ IF after.err = NoError
           THEN /\ heap' = after.heap
                /\ object_stack' = after.object_stack
                /\ cur' = clone
                /\ observed' = Append(observed, Observe(after.heap, after.object_stack, clone))
           ELSE /\ heap' = SubSeq(after.heap, 1, Len(heap))
                /\ object_stack' = SubSeq(after.object_stack, 1, Len(object_stack))
                /\ UNCHANGED <<cur, observed>>

\* cur.add_character(c)
Call(c) == Returned(c, JsonSchemaParser_add_character(model_class, store, cur, c))

\* the driver feeds a character of get_allowed_characters()
AddAllowedCharacter ==
    \E c \in allowed_characters \cap InputChars : Call(c) /\ contract' = "kept"

\* the driver feeds a character that is not allowed, the parse being incomplete
AddIllegalCharacter ==
    \E c \in ContractBreakingInput \ allowed_characters :
        ~can_end /\ Call(c) /\ contract' = "illegal"

\* the driver feeds a character after can_end() has returned true
AddCharacterAfterEnd ==
    \E c \in ContractBreakingInput : can_end /\ Call(c) /\ contract' = "after_end"

\* the driver takes copy.deepcopy(cur), and goes on with the clone
Deepcopy ==
    LET after == JsonSchemaParser_deepcopy(model_class, store, cur)
        clone == Len(after.object_stack)
    IN  /\ err = NoError
        /\ contract = "kept"
        /\ heap' = after.heap
        /\ object_stack' = after.object_stack
        /\ cur' = clone
        /\ observed' = Append(observed, Observe(after.heap, after.object_stack, clone))
        /\ contract' = "cloned"
        /\ UNCHANGED <<model_class, err, input>>

Next == AddAllowedCharacter \/ AddIllegalCharacter \/ AddCharacterAfterEnd \/ Deepcopy

Spec == Init /\ [][Next]_vars

(***************************************************************************)
(* What the properties speak of.                                           *)
(***************************************************************************)
Roots == 1..Len(object_stack)
\* the frames of root r, bottom first
FramesOf(r) == List([i \in 1..Len(object_stack[r]) |-> heap[object_stack[r][i]]])
\* the root add_character was last called on, and what it looked like then
Caller == observed[Len(observed) - 1]
LastChar == input[Len(input)]
EndsInDigit(s) == s # <<>> /\ s[Len(s)] \in Digits
\* a frame that was constructed in root r's stack, or copied into it, and popped
Popped(a) == heap[a].root # NoRef /\ ~In(a, object_stack[heap[a].root])
IsStrictPrefix(p, s) == Len(p) < Len(s) /\ SubSeq(s, 1, Len(p)) = p
HasDuplicate(s) == \E i, j \in 1..Len(s) : i < j /\ s[i] = s[j]
\* a frame but for its identity: the root it belongs to and the address of its key parser
Content(f) == [f EXCEPT !.root = NoRef, !.current_key_parser = NoRef]

(***************************************************************************)
(* JSON (RFC 8259) and schema instances, for C1: whether `input` is the    *)
(* text of a JSON value that is an instance of the root schema.  Parse*    *)
(* take the index a value starts at and give the index after it, 0 when    *)
(* there is no such value there.                                           *)
(***************************************************************************)
At(i) == IF i \in 1..Len(input) THEN input[i] ELSE "EOF"

RECURSIVE SkipWs(_)
SkipWs(i) == IF At(i) \in {" ", "\t", "\n", "\r"} THEN SkipWs(i + 1) ELSE i

\* the index of the quote that closes the string whose content starts at i
RECURSIVE ClosingQuote(_)
ClosingQuote(i) ==
    IF i > Len(input) THEN 0
    ELSE IF input[i] = "\"" THEN i
    ELSE IF input[i] = "\\" THEN ClosingQuote(i + 2)
    ELSE ClosingQuote(i + 1)

\* the index after the number token that starts at i
RECURSIVE NumberEnd(_)
NumberEnd(i) ==
    IF At(i) \in Digits \cup {"-", ".", "+", "e", "E"} THEN NumberEnd(i + 1) ELSE i

AllDigits(t) == \A i \in 1..Len(t) : t[i] \in Digits
\* int = zero / ( digit1-9 *DIGIT )
IsJsonInt(t) == t # <<>> /\ AllDigits(t) /\ (t[1] = "0" => Len(t) = 1)
\* number = [ minus ] int [ frac ], frac = decimal-point 1*DIGIT; no exponent
\* is ever written, and an integer has no fraction
IsJsonNumber(t, fraction) ==
    LET u == IF t # <<>> /\ t[1] = "-" THEN Tail(t) ELSE t
        dots == {i \in 1..Len(u) : u[i] = "."}
    IN  \/ IsJsonInt(u)
        \/ /\ fraction
           /\ \E k \in dots :
                /\ IsJsonInt(SubSeq(u, 1, k - 1))
                /\ k < Len(u)
                /\ AllDigits(SubSeq(u, k + 1, Len(u)))

RECURSIVE ParseValue(_, _), ParseMembers(_, _), ParseItems(_, _)

ParseValue(schema, i) ==
    LET node == Schemas[schema]
    IN  CASE node.type = "object" ->
                IF At(i) # "{" THEN 0
                ELSE IF At(SkipWs(i + 1)) = "}" THEN SkipWs(i + 1) + 1
                ELSE ParseMembers(schema, SkipWs(i + 1))
          [] node.type = "array" ->
                IF At(i) # "[" THEN 0
                ELSE IF At(SkipWs(i + 1)) = "]" THEN SkipWs(i + 1) + 1
                ELSE ParseItems(node.items, SkipWs(i + 1))
          [] node.type = "string" ->
                LET q == IF At(i) = "\"" THEN ClosingQuote(i + 1) ELSE 0
                IN  IF q = 0 THEN 0
                    ELSE IF node.enum # {} /\ SubSeq(input, i + 1, q - 1) \notin node.enum THEN 0
                    ELSE q + 1
          [] node.type \in {"integer", "number"} ->
                IF IsJsonNumber(SubSeq(input, i, NumberEnd(i) - 1), node.type = "number")
                THEN NumberEnd(i)
                ELSE 0
          [] OTHER -> 0

\* member *( value-separator member ) end-object, a member's name being a
\* property of the schema unless the schema is a dictionary
ParseMembers(schema, i) ==
    LET node == Schemas[schema]
        q == IF At(i) = "\"" THEN ClosingQuote(i + 1) ELSE 0
        key == SubSeq(input, i + 1, q - 1)
        colon == SkipWs(q + 1)
    IN  IF q = 0 \/ At(colon) # ":" THEN 0
        ELSE IF node.hasProperties /\ key \notin DOMAIN node.properties THEN 0
        ELSE IF ~node.hasProperties /\ node.additionalProperties = NoRef THEN 0
        ELSE
        LET value_schema == IF node.hasProperties THEN node.properties[key]
                            ELSE node.additionalProperties
            v == ParseValue(value_schema, SkipWs(colon + 1))
            next == SkipWs(v)
        IN  IF v = 0 THEN 0
            ELSE IF At(next) = "," THEN ParseMembers(schema, SkipWs(next + 1))
            ELSE IF At(next) = "}" THEN next + 1
            ELSE 0

\* value *( value-separator value ) end-array
ParseItems(schema, i) ==
    LET v == IF schema = NoRef THEN 0 ELSE ParseValue(schema, i)
        next == SkipWs(v)
    IN  IF v = 0 THEN 0
        ELSE IF At(next) = "," THEN ParseItems(schema, SkipWs(next + 1))
        ELSE IF At(next) = "]" THEN next + 1
        ELSE 0

IsJsonInstance ==
    LET v == ParseValue(model_class, SkipWs(1))
    IN  v # 0 /\ SkipWs(v) = Len(input) + 1

(***************************************************************************)
(* C1: a character sequence of allowed characters that ends where          *)
(* can_end() is true is a JSON text, and an instance of the schema.        *)
(***************************************************************************)
Inv_C1_AcceptedIsInstance ==
    contract = "kept" /\ err = NoError /\ can_end => IsJsonInstance

(***************************************************************************)
(* C2: add_character is copy-on-write.  Every root the driver was ever     *)
(* handed still has the frames, the allowed characters and the can_end()   *)
(* it had when it was returned, whatever was fed to it or to the roots     *)
(* cloned from it since, and each of its frames still has it as root.      *)
(***************************************************************************)
Inv_C2_CopyOnWrite ==
    \A r \in Roots :
        /\ Observe(heap, object_stack, r) = observed[r]
        /\ \A i \in 1..Len(object_stack[r]) : heap[object_stack[r][i]].root = r

\* a root three calls back whose clone's clone's clone has a different stack
Witness_C2 ==
    /\ cur >= 4
    /\ err = NoError
    /\ Len(object_stack[cur - 3]) # Len(object_stack[cur])
    /\ observed[cur - 3].allowed # allowed_characters

(***************************************************************************)
(* C3: no false positives within one step.  While the driver feeds only    *)
(* allowed characters, add_character never raises.                         *)
(***************************************************************************)
Inv_C3_AllowedIsAccepted == contract = "kept" => err = NoError

(***************************************************************************)
(* C4: over-consumption is fatal.  add_character on a root whose can_end() *)
(* is true ends in an error.                                               *)
(***************************************************************************)
Inv_C4_OverConsumptionFails == contract = "after_end" => err # NoError

(***************************************************************************)
(* C5: while the driver feeds only allowed characters, the set of allowed  *)
(* characters is empty exactly when can_end() is true.                     *)
(***************************************************************************)
Inv_C5_EmptyIffCanEnd ==
    contract = "kept" /\ err = NoError => (allowed_characters = {} <=> can_end)

Witness_C5 == contract = "kept" /\ err = NoError /\ can_end /\ allowed_characters = {}

(***************************************************************************)
(* C6: for the schema with the single integer property "n", once the value *)
(* has a digit (as after {"n":4) the allowed characters include every      *)
(* digit, ',' and '}' and not '.'.                                         *)
(***************************************************************************)
InIntegerOfN ==
    /\ model_class = 1 /\ contract = "kept" /\ err = NoError /\ ~can_end
    /\ TopFrame.kind = "Number" /\ EndsInDigit(TopFrame.parsed_string)

Inv_C6_Original ==
    InIntegerOfN =>
        /\ Digits \subseteq allowed_characters
        /\ {",", "}"} \subseteq allowed_characters
        /\ "." \notin allowed_characters

\* C6 as amended: the allowed characters are the digits and '}', and neither
\* ',' nor '.': "n" is the only property, so no key can follow
Inv_C6_Amended == InIntegerOfN => allowed_characters = Digits \cup {"}"}

Witness_C6 == InIntegerOfN /\ input = <<"{", "\"", "n", "\"", ":", "4">>

(***************************************************************************)
(* C7: a String frame with an enumeration, opened and not closed, allows   *)
(* exactly the next character of every member that parsed_string is a      *)
(* strict prefix of, and the closing quote iff parsed_string is a member;  *)
(* after {"flag":"y with the enumeration [yes, no] that is exactly {e}.    *)
(***************************************************************************)
InEnumeration(f) ==
    f.kind = "String" /\ f.allowed_strings # {} /\ f.seen_opening_quote /\ ~f.seen_closing_quote

AfterFlagY ==
    model_class = 3 /\ input = <<"{", "\"", "f", "l", "a", "g", "\"", ":", "\"", "y">>

Inv_C7_EnumerationAllowed ==
    /\ ~can_end /\ err = NoError /\ InEnumeration(TopFrame) =>
         LET p == TopFrame.parsed_string
         IN  allowed_characters =
                {s[Len(p) + 1] : s \in {t \in TopFrame.allowed_strings : IsStrictPrefix(p, t)}}
                \cup {c \in {"\""} : p \in TopFrame.allowed_strings}
    /\ AfterFlagY => allowed_characters = {"e"}

Witness_C7 == AfterFlagY /\ InEnumeration(TopFrame) /\ TopFrame.parsed_string = <<"y">>

(***************************************************************************)
(* C8: Object frames never record a duplicate key: while the driver feeds  *)
(* only allowed characters, no frame's existing_keys holds a key twice.    *)
(***************************************************************************)
Inv_C8_NoDuplicateKey ==
    contract = "kept" =>
        \A i \in 1..Len(object_stack[cur]) : ~HasDuplicate(FramesOf(cur)[i].existing_keys)

(***************************************************************************)
(* C9: a String frame with an enumeration, fed only allowed characters,    *)
(* holds a member of the enumeration once its closing quote is accepted,   *)
(* and still does when it pops.                                            *)
(***************************************************************************)
ClosedEnumeration(f) == f.kind = "String" /\ f.allowed_strings # {} /\ f.seen_closing_quote

Inv_C9_EnumerationMember ==
    contract = "kept" =>
        \A a \in DOMAIN heap :
            ClosedEnumeration(heap[a]) => heap[a].parsed_string \in heap[a].allowed_strings

\* a value of the enumeration [yes, no] has been closed, and a key has popped
Witness_C9 ==
    /\ contract = "kept"
    /\ ~can_end /\ ClosedEnumeration(TopFrame) /\ TopFrame.allowed_strings = {sYes, sNo}
    /\ \E a \in DOMAIN heap : ClosedEnumeration(heap[a]) /\ Popped(a)

(***************************************************************************)
(* C10: a Number frame pops only when its parsed_string ends in a digit.   *)
(* It offers its ending characters iff parsed_string is non-empty and ends *)
(* in a digit, and an ending character fed to it otherwise is appended to  *)
(* parsed_string: the frame stays and the frames below it are untouched.   *)
(***************************************************************************)
EndingFedTooEarly ==
    /\ contract = "illegal" /\ err = NoError
    /\ Caller.frames[Len(Caller.frames)].kind = "Number"
    /\ In(LastChar, Caller.frames[Len(Caller.frames)].ending_characters)

Inv_C10_NumberEndsInDigit ==
    /\ \A a \in DOMAIN heap :
         heap[a].kind = "Number" =>
            /\ Popped(a) => EndsInDigit(heap[a].parsed_string)
            /\ SetOf(heap[a].ending_characters) \subseteq Frame_get_allowed_characters(heap[a])
                  <=> EndsInDigit(heap[a].parsed_string)
    /\ EndingFedTooEarly =>
         LET n == Len(Caller.frames)
         IN  /\ Len(object_stack[cur]) = n
             /\ FramesOf(cur)[n].parsed_string = Append(Caller.frames[n].parsed_string, LastChar)
             /\ \A i \in 1..(n - 1) : Content(FramesOf(cur)[i]) = Content(Caller.frames[i])

\* a number has popped, and an ending character was fed to another too early
Witness_C10 ==
    /\ EndingFedTooEarly
    /\ \E a \in DOMAIN heap : heap[a].kind = "Number" /\ Popped(a)

(***************************************************************************)
(* C11: an Object frame of a properties schema whose existing_keys cover   *)
(* every property offers no continuation: no '"' in ParsingKeyOrEnd and no *)
(* ',' in ParsingValue or ParsingSeparatorOrEnd.                           *)
(***************************************************************************)
AllKeysParsed(f) ==
    /\ f.kind = "Object" /\ ~f.is_dictionary
    /\ DOMAIN Schemas[f.schema_object].properties \subseteq SetOf(f.existing_keys)

Inv_C11_NoContinuationWhenCovered ==
    contract = "kept" /\ err = NoError /\ ~can_end /\ AllKeysParsed(TopFrame) =>
        /\ TopFrame.current_stage = PARSING_KEY_OR_END => "\"" \notin allowed_characters
        /\ TopFrame.current_stage \in {PARSING_VALUE, PARSING_SEPARATOR_OR_END}
              => "," \notin allowed_characters

(***************************************************************************)
(* C12: what a closing quote does to a string value, and how the frames    *)
(* of values pop.                                                          *)
(***************************************************************************)
\* the top frame of the root add_character was called on, and the frame under it
CallerTop == Caller.frames[Len(Caller.frames)]
CallerParent == Caller.frames[Len(Caller.frames) - 1]
Stepped == Len(observed) >= 2 /\ contract = "kept" /\ err = NoError

\* the last character was the closing quote of a string value
ClosingQuoteOfValue ==
    /\ Stepped /\ Caller.frames # <<>> /\ LastChar = "\""
    /\ CallerTop.kind = "String" /\ ~In(":", CallerTop.ending_characters)
    /\ CallerTop.seen_opening_quote /\ ~CallerTop.seen_closing_quote

\* the frame that was the caller's top is still on the stack
CallerTopStays ==
    LET n == Len(Caller.frames)
    IN  /\ Len(object_stack[cur]) >= n
        /\ FramesOf(cur)[n].kind = CallerTop.kind
        /\ FramesOf(cur)[n].ending_characters = CallerTop.ending_characters
        /\ startswith(FramesOf(cur)[n].parsed_string, CallerTop.parsed_string)

\* a Number, String or List frame was the caller's top and has popped
PrimitivePopped ==
    /\ Stepped /\ Caller.frames # <<>>
    /\ CallerTop.kind \in {"Number", "String", "List"}
    /\ ~CallerTopStays

\* the frame under the popped one has received LastChar
ParentReceived ==
    LET n == Len(Caller.frames)
        depth == Len(object_stack[cur])
        parent == FramesOf(cur)[n - 1]
    IN  CASE CallerParent.kind = "Object" /\ LastChar = ":" ->
                /\ depth = n /\ parent.current_stage = PARSING_VALUE
                /\ parent.existing_keys = Append(CallerParent.existing_keys, CallerTop.parsed_string)
          [] CallerParent.kind = "Object" /\ LastChar = "," ->
                depth = n - 1 /\ parent.current_stage = PARSING_KEY_OR_END
          [] CallerParent.kind = "Object" /\ LastChar = "}" -> depth = n - 2
          [] CallerParent.kind = "List" /\ LastChar = "]" ->
                depth = n - 1 /\ parent.seen_list_closer
          [] CallerParent.kind = "List" /\ LastChar = "," ->
                depth = n /\ ~parent.seen_list_closer /\ FramesOf(cur)[n].parsed_string = <<>>
          [] OTHER -> FALSE

\* C12 as stated: the String frame pops on its closing quote and the Object
\* frame under it moves to ParsingSeparatorOrEnd
Inv_C12_Original ==
    ClosingQuoteOfValue =>
        /\ Len(object_stack[cur]) = Len(Caller.frames) - 1
        /\ TopFrame.kind = "Object"
        /\ TopFrame.current_stage = PARSING_SEPARATOR_OR_END

\* C12 as amended: on its closing quote a String value frame sets
\* seen_closing_quote and stays on the stack, the Object frame under it staying
\* in ParsingValue; String, Number and List frames alike pop only on one of
\* their ending characters, which the frame under them receives; and no Object
\* frame is ever in ParsingSeparatorOrEnd.
Inv_C12_Amended ==
    /\ ClosingQuoteOfValue =>
         LET n == Len(Caller.frames)
         IN  /\ Len(object_stack[cur]) = n
             /\ TopFrame = [CallerTop EXCEPT !.seen_closing_quote = TRUE, !.root = cur]
             /\ FramesOf(cur)[n - 1].kind = "Object"
                   => FramesOf(cur)[n - 1].current_stage = PARSING_VALUE
    /\ PrimitivePopped =>
         /\ Frame_can_end(CallerTop)
         /\ In(LastChar, CallerTop.ending_characters)
         /\ ParentReceived
    /\ contract = "kept" =>
         \A a \in DOMAIN heap : heap[a].current_stage # PARSING_SEPARATOR_OR_END

\* a string value has been closed, and its frame has since popped on '}' or ','
Witness_C12 ==
    /\ PrimitivePopped /\ CallerTop.kind = "String" /\ CallerTop.seen_closing_quote
    /\ ~In(":", CallerTop.ending_characters)

(***************************************************************************)
(* C13: a character that finish_parser forwards is one the new top frame   *)
(* allows.  A frame pops and forwards c exactly when it is the top frame,  *)
(* can end, and c is one of its ending characters; the new top frame is    *)
(* the frame under it, as it is then.                                      *)
(***************************************************************************)
CanPop ==
    /\ contract = "kept" /\ err = NoError /\ ~can_end
    /\ TopFrame.kind \in {"Number", "String", "List"}
    /\ Frame_can_end(TopFrame)

Below == heap[object_stack[cur][Len(object_stack[cur]) - 1]]

\* C13 as stated: every forwarded character, ':' included, is allowed by the
\* frame it is delivered to
Inv_C13_Original ==
    CanPop => SetOf(TopFrame.ending_characters) \subseteq Frame_get_allowed_characters(Below)

\* C13 as amended: ',', '}' and ']' forwarded by a Number, String or List frame
\* are allowed by the frame they are delivered to; ':' forwarded by a key String
\* frame is delivered to its Object frame in ParsingKeyOrEnd, which takes it as
\* the end of the key though its get_allowed_characters() does not contain ':'
Inv_C13_Amended ==
    CanPop =>
        /\ SetOf(TopFrame.ending_characters) \ {":"} \subseteq Frame_get_allowed_characters(Below)
        /\ In(":", TopFrame.ending_characters) =>
              /\ Below.kind = "Object" /\ Below.current_stage = PARSING_KEY_OR_END
              /\ Below.current_key_parser = object_stack[cur][Len(object_stack[cur])]
              /\ ":" \notin Frame_get_allowed_characters(Below)

\* a number of a list has popped on ',', which the List frame received
Witness_C13 ==
    PrimitivePopped /\ CallerTop.kind = "Number" /\ CallerParent.kind = "List" /\ LastChar = ","

(***************************************************************************)
(* C14: every Number frame on the stack holds a prefix of a JSON number    *)
(* literal (the frame is empty until its first character), with at most    *)
(* one '.', and with a '.' only when allow_floating_point.                 *)
(***************************************************************************)
\* t is a prefix of  [ minus ] int [ decimal-point 1*DIGIT ]  (RFC 8259)
IsNumberPrefix(t) ==
    LET u == IF t # <<>> /\ t[1] = "-" THEN Tail(t) ELSE t
        dots == {i \in 1..Len(u) : u[i] = "."}
    IN  \/ u = <<>>
        \/ IsJsonInt(u)
        \/ \E k \in dots :
              /\ IsJsonInt(SubSeq(u, 1, k - 1))
              /\ AllDigits(SubSeq(u, k + 1, Len(u)))

Inv_C14_NumberPrefix ==
    contract = "kept" =>
        \A i \in 1..Len(object_stack[cur]) :
            LET f == FramesOf(cur)[i]
            IN  f.kind = "Number" =>
                   /\ IsNumberPrefix(f.parsed_string)
                   /\ Count(f.parsed_string, ".") <= 1
                   /\ In(".", f.parsed_string) => f.allow_floating_point

(***************************************************************************)
(* C15: the closing protocol of a List frame.  On ']' it sets              *)
(* seen_list_closer and stays; it pops only on a later character of its    *)
(* ending_characters, which the frame under it receives; a ',' it receives *)
(* while not closed pushes one member frame with the ending characters     *)
(* "]," and a ',' it receives once closed pushes none.                     *)
(***************************************************************************)
\* the last add_character returned, the driver keeping the contract or feeding a
\* character that was not allowed
Fed == Len(observed) >= 2 /\ err = NoError /\ contract \in {"kept", "illegal"}

\* the last character went to a List frame: it was the top frame, or the top
\* frame was its member and popped on the character
ListReceived(c) ==
    /\ Fed /\ LastChar = c /\ Caller.frames # <<>>
    /\ \/ CallerTop.kind = "List"
       \/ /\ CallerTop.kind \in {"Number", "String"} /\ CallerParent.kind = "List"
          /\ Frame_can_end(CallerTop) /\ In(c, CallerTop.ending_characters)

ListPos == IF CallerTop.kind = "List" THEN Len(Caller.frames) ELSE Len(Caller.frames) - 1
TheList == Caller.frames[ListPos]

Inv_C15_ListClosing ==
    /\ ListReceived("]") /\ ~TheList.seen_list_closer =>
         /\ Len(object_stack[cur]) = ListPos
         /\ TopFrame = [TheList EXCEPT !.seen_list_closer = TRUE, !.root = cur]
    /\ PrimitivePopped /\ CallerTop.kind = "List" =>
         /\ CallerTop.seen_list_closer
         /\ In(LastChar, CallerTop.ending_characters)
         /\ ParentReceived
    /\ ListReceived(",") /\ ~TheList.seen_list_closer =>
         /\ Len(object_stack[cur]) = ListPos + 1
         /\ FramesOf(cur)[ListPos] = [TheList EXCEPT !.root = cur]
         /\ TopFrame = get_parser(model_class, cur, TheList.list_member_type, <<"]", ",">>).frame
    /\ ListReceived(",") /\ TheList.seen_list_closer =>
         IF In(",", TheList.ending_characters)
         THEN /\ Len(object_stack[cur]) = ListPos - 1
              /\ TopFrame.kind = "Object" /\ TopFrame.current_stage = PARSING_KEY_OR_END
         ELSE /\ Len(object_stack[cur]) = ListPos
              /\ TopFrame = [TheList EXCEPT !.parsed_string = Append(@, ","), !.root = cur]

\* a closed list has popped on ',' and its Object frame awaits the next key
Witness_C15 ==
    /\ ListReceived(",") /\ TheList.seen_list_closer /\ contract = "kept"
    /\ Len(object_stack[cur]) = ListPos - 1

(***************************************************************************)
(* C16: the deep clone of a root, the completed root included, has a stack *)
(* of the same frames (kinds, stages, buffers, and the key parser an       *)
(* Object frame refers to at the same depth), the same can_end() and the   *)
(* same get_allowed_characters(), and each of its frames has it as root.   *)
(***************************************************************************)
\* the depth of the frame at address a in a stack, 0 when it is not in it
DepthOf(stack, a) ==
    IF In(a, stack) THEN CHOOSE i \in 1..Len(stack) : stack[i] = a ELSE 0

Inv_C16_CloneIsEqual ==
    contract = "cloned" =>
        LET original == object_stack[Len(observed) - 1]
            clone == object_stack[cur]
        IN  /\ Len(clone) = Len(original)
            /\ \A i \in 1..Len(clone) :
                 /\ Content(heap[clone[i]]) = Content(heap[original[i]])
                 /\ heap[clone[i]].root = cur
                 /\ DepthOf(clone, heap[clone[i]].current_key_parser)
                       = DepthOf(original, heap[original[i]].current_key_parser)
            /\ can_end = Caller.can_end
            /\ allowed_characters = Caller.allowed

(***************************************************************************)
(* C17: when get_parser fails (a type it does not implement, a $ref with   *)
(* no definitions in the root schema) the caller of add_character gets the *)
(* error, and the root it called add_character on is as it was: the same   *)
(* frames, get_allowed_characters() and can_end().  No value of a schema   *)
(* get_parser fails on is ever being parsed.                               *)
(***************************************************************************)
DispatcherErrors == {"Exception", "ValueError"}

\* get_parser fails on the schema of the value the Object frame f is parsing
ParsingUndispatchable(f) ==
    /\ f.kind = "Object" /\ f.current_stage = PARSING_VALUE /\ ~f.is_dictionary
    /\ f.current_key \in DOMAIN Schemas[f.schema_object].properties
    /\ get_parser(model_class, f.root, Schemas[f.schema_object].properties[f.current_key],
                  <<"}">>).err # NoError

Inv_C17_DispatcherErrorLeavesRoot ==
    /\ err \in DispatcherErrors =>
         /\ LastChar \in {":", "[", ","}
         /\ cur = Len(observed) /\ Len(object_stack) = Len(observed)
         /\ Observe(heap, object_stack, cur) = observed[cur]
         /\ \A i \in 1..Len(object_stack[cur]) : FramesOf(cur)[i].root = cur
    /\ err = NoError =>
         /\ \A i \in 1..Len(object_stack[cur]) : ~ParsingUndispatchable(FramesOf(cur)[i])
         /\ \A a \in DOMAIN heap : heap[a].kind # "None"

\* get_parser has failed on the members of a list, at '['
Witness_C17 == err = "Exception" /\ LastChar = "[" /\ contract = "kept"

(***************************************************************************)
(* C18: the shape of the stack while the driver feeds allowed characters.  *)
(* The bottom frame is an Object frame; String and Number frames are at    *)
(* the top only; a frame under the top is an Object frame in               *)
(* ParsingKeyOrEnd (exactly when the frame above it is its key String      *)
(* frame, which current_key_parser refers to) or in ParsingValue, or a     *)
(* List frame that is open and not closed.                                 *)
(***************************************************************************)
Inv_C18_StackShape ==
    contract = "kept" /\ ~can_end =>
        LET stack == object_stack[cur]
            frames == FramesOf(cur)
        IN  /\ frames[1].kind = "Object"
            /\ \A i \in 1..(Len(stack) - 1) :
                 \/ /\ frames[i].kind = "Object"
                    /\ frames[i].current_stage \in {PARSING_KEY_OR_END, PARSING_VALUE}
                    /\ frames[i].current_stage = PARSING_KEY_OR_END
                          <=> /\ frames[i + 1].kind = "String"
                              /\ frames[i].current_key_parser = stack[i + 1]
                 \/ /\ frames[i].kind = "List"
                    /\ frames[i].seen_list_opener /\ ~frames[i].seen_list_closer

\* the key of an object of a list is being parsed: Object, List, Object, String
Witness_C18 ==
    /\ contract = "kept" /\ Len(object_stack[cur]) = 4
    /\ FramesOf(cur)[2].kind = "List" /\ FramesOf(cur)[3].current_stage = PARSING_KEY_OR_END
    /\ TopFrame.kind = "String"

(***************************************************************************)
(* C19: whitespace fed to an Object frame at the top of the stack is a     *)
(* no-op, whatever the stage: the returned root has the frames of the      *)
(* root it was fed to, and ' ' is among the allowed characters of an       *)
(* Object frame in every stage.                                            *)
(***************************************************************************)
SpaceFedToObject ==
    /\ Stepped /\ LastChar = " "
    /\ Caller.frames # <<>> /\ CallerTop.kind = "Object"

Inv_C19_WhitespaceNoOp ==
    /\ \A a \in DOMAIN heap :
         heap[a].kind = "Object" => " " \in Frame_get_allowed_characters(heap[a])
    /\ SpaceFedToObject =>
         /\ Len(object_stack[cur]) = Len(Caller.frames)
         /\ \A i \in 1..Len(Caller.frames) :
              /\ Content(FramesOf(cur)[i]) = Content(Caller.frames[i])
              /\ FramesOf(cur)[i].root = cur
         /\ TopFrame.current_key_parser = NoRef <=> CallerTop.current_key_parser = NoRef
         /\ allowed_characters = Caller.allowed
         /\ can_end = Caller.can_end

\* a space after the value of a property, the value being an object
Witness_C19 == SpaceFedToObject /\ CallerTop.current_stage = PARSING_VALUE

(***************************************************************************)
(* C20: a list never closes without an item nor after a separator.  While  *)
(* the driver feeds allowed characters, a ']' follows the end of a member  *)
(* (whitespace aside), never '[' or ','; and it reaches the List frame     *)
(* from a member frame that can end, or with the last member popped.       *)
(***************************************************************************)
\* the last character before input[j] that is not whitespace
RECURSIVE PrevToken(_)
PrevToken(j) ==
    IF j <= 1 THEN "BOF"
    ELSE IF IsWhitespace(input[j - 1]) THEN PrevToken(j - 1)
    ELSE input[j - 1]

Inv_C20_ListNeverEmptyNorTrailing ==
    contract = "kept" =>
        /\ \A j \in 1..Len(input) :
             input[j] = "]" => PrevToken(j) \in Digits \cup {"}", "]", "\""}
        /\ ListReceived("]") /\ ~TheList.seen_list_closer =>
             /\ TheList.seen_list_opener
             /\ \/ CallerTop.kind = "Number" /\ EndsInDigit(CallerTop.parsed_string)
                \/ CallerTop.kind = "String" /\ CallerTop.seen_closing_quote
                \/ CallerTop.kind = "List" /\ PrevToken(Len(input)) \in {"}", "]"}

\* a list is closed after its second member
Witness_C20 ==
    /\ contract = "kept" /\ ListReceived("]") /\ ~TheList.seen_list_closer
    /\ Count(input, ",") = 1
=============================================================================
